---- MODULE Spec2Model ----
(***************************************************************************)
(* WorkSphere, convex/cases.ts: the case records with their aggregate      *)
(* counters, the documents attached to them, the audit log, the case chat  *)
(* transcript and the AI reply generator; convex/fileExtraction.ts with    *)
(* convex/getText.ts: the conversion of an upload into a document; and     *)
(* the workspace chat (aiChats): sendMessage and appendMessage.            *)
(*                                                                         *)
(* A Convex mutation is one transaction, so every mutation is one action.  *)
(* An action (sendMessageToCaseAI, convertUploadToDocument, sendMessage)   *)
(* is a sequence of separate transactions and is modelled one step per     *)
(* awaited call.                                                           *)
(*                                                                         *)
(* Text is kept run-length encoded: a text is a sequence of runs           *)
(* [c |-> symbol, n |-> count], n > 0, adjacent runs of different symbols. *)
(* A fixed literal of the program is one run whose symbol is the literal.  *)
(* The createdAt/lastModifiedAt stamps of a case are not kept: no function *)
(* of cases.ts reads them.                                                 *)
(***************************************************************************)
EXTENDS Integers, Sequences, FiniteSets, TLC

VARIABLES cases, documents, auditLogs, chatMessages, sends, now, result,
          calls, files, uploads, aiChats, aiChatMessages, aiSends

\* the tables cases.ts writes
dbVars == <<cases, documents, auditLogs>>
\* the case chat: the transcript, the running sendMessageToCaseAI operations
\* and the clock behind Date.now()
chatVars == <<chatMessages, sends, now>>
\* the mutation calls in flight, the file records and the running
\* convertUploadToDocument operations of fileExtraction.ts, and the workspace
\* chat of aiChats.ts with its running sendMessage operations
restVars == <<calls, files, uploads, aiChats, aiChatMessages, aiSends>>

\* ------------------------------------------------------------- bounds ----
\* audit-log records written (Spec, SpecGenerator, SpecCases, SpecLimit,
\* SpecLive, SpecAccess, SpecFloor)
MaxAudit == 3
MaxAuditGenerator == 4
MaxAuditCases == 5
MaxAuditLimit == 32
MaxAuditLive == 2
MaxAuditAccess == 3
MaxAuditFloor == 4
\* times a document is edited
MaxEdits == 1
\* sendMessageToCaseAI operations started, and the last reading of the clock
MaxSends == 1
MaxClock == 1
\* mutation calls that run side by side (SpecRace)
MaxCalls == 2
\* sendMessageToCaseAI operations that run side by side (SpecChat)
MaxChatSends == 2
\* audit-log records written and convertUploadToDocument operations started
\* (SpecUpload)
MaxAuditUpload == 2
MaxUploads == 1
\* workspace chats created and sendMessage operations started (SpecAiChat)
MaxChats == 1
MaxAiSends == 1

\* ---------------------------------------------------------- universes ----
Users == {"u1", "u2"}
NoUser == "none"
Callers == Users \cup {NoUser}
Undefined == "undefined"
\* the ids the store hands out, in creation order, and an id of no record
CaseIds == {1, 2}
OneCase == {1}
DocIds == {1, 2}
MissingDoc == Cardinality(DocIds) + 1
\* document.caseId === undefined
NoCase == 0
\* ctx.db.get of an id that has no record
Null == [exists |-> FALSE]

\* ----------------------------------------------------------------- text --
Whitespace == {" ", "\n"}

Txt(c, n) == IF n > 0 THEN <<[c |-> c, n |-> n]>> ELSE << >>

RECURSIVE Length(_)
\* String.length: the number of UTF-16 units
Length(t) == IF t = << >> THEN 0 ELSE Head(t).n + Length(Tail(t))

Utf8Width(c) == IF c = "é" THEN 2 ELSE 1

RECURSIVE ByteLength(_)
\* new TextEncoder().encode(s).length
ByteLength(t) ==
    IF t = << >> THEN 0 ELSE Head(t).n * Utf8Width(Head(t).c) + ByteLength(Tail(t))

RECURSIVE TrimStart(_)
TrimStart(t) ==
    IF t = << >> THEN << >>
    ELSE IF Head(t).c \in Whitespace THEN TrimStart(Tail(t)) ELSE t

RECURSIVE TrimEnd(_)
TrimEnd(t) ==
    IF t = << >> THEN << >>
    ELSE IF t[Len(t)].c \in Whitespace THEN TrimEnd(SubSeq(t, 1, Len(t) - 1)) ELSE t

\* String.prototype.trim
Trim(t) == TrimEnd(TrimStart(t))

\* the documents of the store: short text, blank text, multi-byte text, and
\* one large document
TextDoc == Txt("x", 11)
BlankDoc == Txt(" ", 3)
AccentDoc == Txt("é", 4)
BigDoc == Txt("x", 20 * 1024 * 1024)
\* text longer than the per-document limit, text behind 2,000 blanks, and
\* text whose first 2,000 characters begin and end with blanks
LongDoc == Txt("x", 2500)
LateDoc == Txt(" ", 2000) \o Txt("x", 5)
PaddedDoc == Txt(" ", 3) \o Txt("x", 1995) \o Txt(" ", 4) \o Txt("x", 3)

\* ------------------------------------------------------------- limits ----
MAX_DOCUMENTS == 30
MAX_TOTAL_SIZE == 50 * 1024 * 1024

\* ------------------------------------------------------------ helpers ----
Max(a, b) == IF a >= b THEN a ELSE b

\* ctx.db.get(caseId)
GetCaseDoc(c) == IF c \in DOMAIN cases THEN cases[c] ELSE Null

\* ctx.db.get(documentId)
GetDocument(d) == IF d \in DOMAIN documents THEN documents[d] ELSE Null

\* the test without the owner
AccessDeniedMut(caseDoc, userId) == ~caseDoc.exists

\* !caseDoc || caseDoc.createdBy !== userId
AccessDenied(caseDoc, userId) == ~caseDoc.exists \/ caseDoc.createdBy # userId

\* the limit test off by one
DocumentLimitReachedMut(caseDoc) == caseDoc.documentCount > MAX_DOCUMENTS

\* caseDoc.documentCount >= 30
DocumentLimitReached(caseDoc) == caseDoc.documentCount >= MAX_DOCUMENTS

\* caseDoc.totalSize + documentSize > 50 * 1024 * 1024
SizeLimitReached(caseDoc, documentSize) ==
    caseDoc.totalSize + documentSize > MAX_TOTAL_SIZE

\* the outcome of the latest call of a public function
Outcome(op, error, value, apiCalled) ==
    [op |-> op, error |-> error, value |-> value, apiCalled |-> apiCalled]

\* throw new Error(message): nothing is written
Throw(op, message) ==
    /\ result' = Outcome(op, message, << >>, FALSE)
    /\ UNCHANGED dbVars
    /\ UNCHANGED chatVars

\* return true
Return(op) ==
    /\ result' = Outcome(op, "", << >>, FALSE)
    /\ UNCHANGED chatVars

\* ctx.db.insert("auditLogs", ...): the log is only ever appended to and no
\* function reads it, so it is kept as its number of records
InsertAuditLog == auditLogs' = auditLogs + 1

\* --------------------------------------------------------- mutations ----
CreateCase(userId, name) ==
    /\ IF userId = NoUser
       THEN Throw("createCase", "Not authenticated")
       ELSE LET caseId == Cardinality(DOMAIN cases) + 1 IN
            /\ cases' = cases @@ (caseId :>
                   [exists |-> TRUE, name |-> name, createdBy |-> userId,
                    isActive |-> TRUE, totalSize |-> 0, documentCount |-> 0])
            /\ InsertAuditLog
            /\ UNCHANGED documents
            /\ Return("createCase")

\* the document is patched before the limits are tested
AddDocumentToCaseMut(userId, caseId, documentId) ==
    LET caseDoc == GetCaseDoc(caseId)
        document == GetDocument(documentId)
    IN
    /\ IF userId = NoUser
       THEN Throw("addDocumentToCase", "Not authenticated")
       ELSE IF AccessDenied(caseDoc, userId)
       THEN Throw("addDocumentToCase", "Case not found or access denied")
       ELSE IF ~document.exists
       THEN Throw("addDocumentToCase", "Document not found")
       ELSE LET documentSize == ByteLength(document.content) IN
            /\ documents' = [documents EXCEPT ![documentId].caseId = caseId]
            /\ IF DocumentLimitReached(caseDoc)
               THEN /\ result' = Outcome("addDocumentToCase",
                                          "Case document limit reached", << >>, FALSE)
                    /\ UNCHANGED <<cases, auditLogs>>
                    /\ UNCHANGED chatVars
               ELSE IF SizeLimitReached(caseDoc, documentSize)
               THEN /\ result' = Outcome("addDocumentToCase",
                                          "Case size limit reached", << >>, FALSE)
                    /\ UNCHANGED <<cases, auditLogs>>
                    /\ UNCHANGED chatVars
               ELSE /\ cases' = [cases EXCEPT
                          ![caseId].documentCount = caseDoc.documentCount + 1,
                          ![caseId].totalSize = caseDoc.totalSize + documentSize]
                    /\ InsertAuditLog
                    /\ Return("addDocumentToCase")

AddDocumentToCase(userId, caseId, documentId) ==
    LET caseDoc == GetCaseDoc(caseId)
        document == GetDocument(documentId)
    IN
    /\ IF userId = NoUser
       THEN Throw("addDocumentToCase", "Not authenticated")
       ELSE IF AccessDenied(caseDoc, userId)
       THEN Throw("addDocumentToCase", "Case not found or access denied")
       ELSE IF ~document.exists
       THEN Throw("addDocumentToCase", "Document not found")
       ELSE LET documentSize == ByteLength(document.content) IN
            IF DocumentLimitReached(caseDoc)
            THEN Throw("addDocumentToCase", "Case document limit reached")
            ELSE IF SizeLimitReached(caseDoc, documentSize)
            THEN Throw("addDocumentToCase", "Case size limit reached")
            ELSE /\ documents' = [documents EXCEPT ![documentId].caseId = caseId]
                 /\ cases' = [cases EXCEPT
                       ![caseId].documentCount = caseDoc.documentCount + 1,
                       ![caseId].totalSize = caseDoc.totalSize + documentSize]
                 /\ InsertAuditLog
                 /\ Return("addDocumentToCase")

\* the counters are decremented without the floor
RemoveDocumentFromCaseMut(userId, caseId, documentId) ==
    LET caseDoc == GetCaseDoc(caseId)
        document == GetDocument(documentId)
    IN
    /\ IF userId = NoUser
       THEN Throw("removeDocumentFromCase", "Not authenticated")
       ELSE IF AccessDenied(caseDoc, userId)
       THEN Throw("removeDocumentFromCase", "Case not found or access denied")
       ELSE IF ~document.exists \/ document.caseId # caseId
       THEN Throw("removeDocumentFromCase", "Document not found in this case")
       ELSE LET size == ByteLength(document.content) IN
            /\ documents' = [documents EXCEPT ![documentId].caseId = NoCase]
            /\ cases' = [cases EXCEPT
                  ![caseId].documentCount = caseDoc.documentCount - 1,
                  ![caseId].totalSize = caseDoc.totalSize - size]
            /\ InsertAuditLog
            /\ Return("removeDocumentFromCase")

RemoveDocumentFromCase(userId, caseId, documentId) ==
    LET caseDoc == GetCaseDoc(caseId)
        document == GetDocument(documentId)
    IN
    /\ IF userId = NoUser
       THEN Throw("removeDocumentFromCase", "Not authenticated")
       ELSE IF AccessDenied(caseDoc, userId)
       THEN Throw("removeDocumentFromCase", "Case not found or access denied")
       ELSE IF ~document.exists \/ document.caseId # caseId
       THEN Throw("removeDocumentFromCase", "Document not found in this case")
       ELSE LET size == ByteLength(document.content) IN
            /\ documents' = [documents EXCEPT ![documentId].caseId = NoCase]
            /\ cases' = [cases EXCEPT
                  ![caseId].documentCount = Max(0, caseDoc.documentCount - 1),
                  ![caseId].totalSize = Max(0, caseDoc.totalSize - size)]
            /\ InsertAuditLog
            /\ Return("removeDocumentFromCase")

UpdateCase(userId, caseId, name) ==
    LET caseDoc == GetCaseDoc(caseId) IN
    IF userId = NoUser
    THEN Throw("updateCase", "Not authenticated")
    ELSE IF AccessDenied(caseDoc, userId)
    THEN Throw("updateCase", "Case not found or access denied")
    ELSE /\ cases' = [cases EXCEPT
               ![caseId].name = IF name # Undefined THEN name ELSE caseDoc.name]
         /\ UNCHANGED <<documents, auditLogs>>
         /\ Return("updateCase")

\* the case is flagged and its documents stay assigned to it
DeleteCaseMut(userId, caseId) ==
    LET caseDoc == GetCaseDoc(caseId) IN
    /\ IF userId = NoUser
       THEN Throw("deleteCase", "Not authenticated")
       ELSE IF AccessDenied(caseDoc, userId)
       THEN Throw("deleteCase", "Case not found or access denied")
       ELSE /\ cases' = [cases EXCEPT ![caseId].isActive = FALSE]
            /\ InsertAuditLog
            /\ UNCHANGED documents
            /\ Return("deleteCase")

DeleteCase(userId, caseId) ==
    LET caseDoc == GetCaseDoc(caseId) IN
    /\ IF userId = NoUser
       THEN Throw("deleteCase", "Not authenticated")
       ELSE IF AccessDenied(caseDoc, userId)
       THEN Throw("deleteCase", "Case not found or access denied")
       ELSE /\ documents' = [d \in DOMAIN documents |->
                  IF documents[d].caseId = caseId
                  THEN [documents[d] EXCEPT !.caseId = NoCase]
                  ELSE documents[d]]
            /\ cases' = [cases EXCEPT ![caseId].isActive = FALSE]
            /\ InsertAuditLog
            /\ Return("deleteCase")

\* the editor saves a document with new content; the case the document is
\* attached to is not touched
EditDocument(documentId, content) ==
    /\ documents' = [documents EXCEPT
          ![documentId].content = content,
          ![documentId].lastModifiedAt = documents[documentId].lastModifiedAt + 1]
    /\ result' = Outcome("editDocument", "", << >>, FALSE)
    /\ UNCHANGED <<cases, auditLogs>>
    /\ UNCHANGED chatVars

\* ----------------------------------------------------------- queries ----
\* getCase: null unless the caller created the case
GetCase(userId, caseId) ==
    LET caseDoc == GetCaseDoc(caseId) IN
    IF userId = NoUser THEN Null
    ELSE IF ~caseDoc.exists \/ caseDoc.createdBy # userId THEN Null
    ELSE caseDoc

RECURSIVE DocumentsByCase(_, _)
\* withIndex("by_case", caseId).order("desc"): the newest record first;
\* document ids are handed out in creation order
DocumentsByCase(caseId, d) ==
    IF d = 0 THEN << >>
    ELSE (IF documents[d].caseId = caseId THEN <<documents[d]>> ELSE << >>)
         \o DocumentsByCase(caseId, d - 1)

\* getCaseDocuments for any signed-in caller
GetCaseDocumentsMut(userId, caseId) ==
    LET caseDoc == GetCaseDoc(caseId) IN
    IF userId = NoUser THEN << >>
    ELSE IF ~caseDoc.exists THEN << >>
    ELSE DocumentsByCase(caseId, Cardinality(DOMAIN documents))

RECURSIVE MessagesByCase(_, _)
\* withIndex("by_case", caseId).order("asc")
MessagesByCase(caseId, messages) ==
    IF messages = << >> THEN << >>
    ELSE (IF Head(messages).caseId = caseId THEN <<Head(messages)>> ELSE << >>)
         \o MessagesByCase(caseId, Tail(messages))

\* getCaseMessages: [] unless the caller created the case
GetCaseMessages(userId, caseId) ==
    LET caseDoc == GetCaseDoc(caseId) IN
    IF userId = NoUser THEN << >>
    ELSE IF ~caseDoc.exists \/ caseDoc.createdBy # userId THEN << >>
    ELSE MessagesByCase(caseId, chatMessages)

\* getCaseDocuments: [] unless the caller created the case
GetCaseDocuments(userId, caseId) ==
    LET caseDoc == GetCaseDoc(caseId) IN
    IF userId = NoUser THEN << >>
    ELSE IF ~caseDoc.exists \/ caseDoc.createdBy # userId THEN << >>
    ELSE DocumentsByCase(caseId, Cardinality(DOMAIN documents))

\* --------------------------------------------------- AI reply generator --
MAX_CONTEXT_CHARS == 12000
PER_DOCUMENT_LIMIT == 2000

Lit(s) == <<[c |-> s, n |-> 1]>>
MsgAddDocuments == Lit("I can help once there are documents with readable text in this case. Please add or update case documents and ask again.")
MsgNoUsableText == Lit("I wasn't able to find usable text in the attached case documents. Please provide more detailed content and try again.")
MsgNotConfigured == Lit("I received your question but the AI service is not configured. Please add an OpenAI API key and try again.")
MsgNoResponse == Lit("I couldn't generate a response right now. Please try again in a few moments.")
MsgUnreachable == Lit("I wasn't able to reach the AI service. Please try again later.")

\* the content without the truncation
SliceMut(t, n) == t

RECURSIVE Slice(_, _)
\* content.slice(0, n)
Slice(t, n) ==
    IF t = << >> \/ n <= 0 THEN << >>
    ELSE IF Head(t).n <= n THEN <<Head(t)>> \o Slice(Tail(t), n - Head(t).n)
    ELSE <<[c |-> Head(t).c, n |-> n]>>

RECURSIVE FilterMut(_)
\* the filter without the trim
FilterMut(docs) ==
    IF docs = << >> THEN << >>
    ELSE (IF Length(Head(docs).content) > 0 THEN <<Head(docs)>> ELSE << >>)
         \o FilterMut(Tail(docs))

RECURSIVE Filter(_)
\* .filter(doc => typeof doc.content === "string" && doc.content.trim().length)
Filter(docs) ==
    IF docs = << >> THEN << >>
    ELSE (IF Length(Trim(Head(docs).content)) > 0 THEN <<Head(docs)>> ELSE << >>)
         \o Filter(Tail(docs))

RECURSIVE Insert(_, _)
\* puts doc behind every document that is at least as recent (a stable sort)
Insert(doc, sorted) ==
    IF sorted = << >> THEN <<doc>>
    ELSE IF Head(sorted).lastModifiedAt >= doc.lastModifiedAt
         THEN <<Head(sorted)>> \o Insert(doc, Tail(sorted))
         ELSE <<doc>> \o sorted

\* the documents in the order the store returned them
SortByLastModifiedMut(docs) == docs

RECURSIVE SortByLastModified(_)
\* .sort((a, b) => (b.lastModifiedAt ?? 0) - (a.lastModifiedAt ?? 0))
SortByLastModified(docs) ==
    IF docs = << >> THEN << >>
    ELSE Insert(docs[Len(docs)], SortByLastModified(SubSeq(docs, 1, Len(docs) - 1)))

RECURSIVE AssembleNoBudgetMut(_, _, _)
\* the loop without the budget test
AssembleNoBudgetMut(docs, contextSections, currentLength) ==
    IF docs = << >> THEN contextSections
    ELSE LET doc == Head(docs)
             snippet == Trim(Slice(doc.content, PER_DOCUMENT_LIMIT))
             length == 7 + Length(doc.title) + 10 + Length(snippet)
         IN
         IF snippet = << >>
         THEN AssembleNoBudgetMut(Tail(docs), contextSections, currentLength)
         ELSE LET accepted == Append(contextSections,
                      [title |-> doc.title, snippet |-> snippet, length |-> length])
              IN
              IF currentLength + length >= MAX_CONTEXT_CHARS THEN accepted
              ELSE AssembleNoBudgetMut(Tail(docs), accepted, currentLength + length)

RECURSIVE AssembleNoFirstMut(_, _, _)
\* the loop with the budget test applied to the first section too
AssembleNoFirstMut(docs, contextSections, currentLength) ==
    IF docs = << >> THEN contextSections
    ELSE LET doc == Head(docs)
             snippet == Trim(Slice(doc.content, PER_DOCUMENT_LIMIT))
             length == 7 + Length(doc.title) + 10 + Length(snippet)
         IN
         IF snippet = << >>
         THEN AssembleNoFirstMut(Tail(docs), contextSections, currentLength)
         ELSE IF currentLength + length > MAX_CONTEXT_CHARS
         THEN contextSections
         ELSE LET accepted == Append(contextSections,
                      [title |-> doc.title, snippet |-> snippet, length |-> length])
              IN
              IF currentLength + length >= MAX_CONTEXT_CHARS THEN accepted
              ELSE AssembleNoFirstMut(Tail(docs), accepted, currentLength + length)

RECURSIVE AssembleNoSkipMut(_, _, _)
\* the loop without the skip of an empty snippet
AssembleNoSkipMut(docs, contextSections, currentLength) ==
    IF docs = << >> THEN contextSections
    ELSE LET doc == Head(docs)
             snippet == Trim(Slice(doc.content, PER_DOCUMENT_LIMIT))
             length == 7 + Length(doc.title) + 10 + Length(snippet)
         IN
         IF currentLength + length > MAX_CONTEXT_CHARS /\ Len(contextSections) > 0
         THEN contextSections
         ELSE LET accepted == Append(contextSections,
                      [title |-> doc.title, snippet |-> snippet, length |-> length])
              IN
              IF currentLength + length >= MAX_CONTEXT_CHARS THEN accepted
              ELSE AssembleNoSkipMut(Tail(docs), accepted, currentLength + length)

RECURSIVE AssembleContinueMut(_, _, _)
\* the loop going on to the next document after one that exceeds the budget
AssembleContinueMut(docs, contextSections, currentLength) ==
    IF docs = << >> THEN contextSections
    ELSE LET doc == Head(docs)
             snippet == Trim(Slice(doc.content, PER_DOCUMENT_LIMIT))
             length == 7 + Length(doc.title) + 10 + Length(snippet)
         IN
         IF snippet = << >>
         THEN AssembleContinueMut(Tail(docs), contextSections, currentLength)
         ELSE IF currentLength + length > MAX_CONTEXT_CHARS /\ Len(contextSections) > 0
         THEN AssembleContinueMut(Tail(docs), contextSections, currentLength)
         ELSE LET accepted == Append(contextSections,
                      [title |-> doc.title, snippet |-> snippet, length |-> length])
              IN
              IF currentLength + length >= MAX_CONTEXT_CHARS THEN accepted
              ELSE AssembleContinueMut(Tail(docs), accepted, currentLength + length)

RECURSIVE Assemble(_, _, _)
\* the loop over the documents: each section is kept as its title, its snippet
\* and the length of `Title: ${title}\nContent:\n${snippet}`
Assemble(docs, contextSections, currentLength) ==
    IF docs = << >> THEN contextSections
    ELSE LET doc == Head(docs)
             snippet == Trim(Slice(doc.content, PER_DOCUMENT_LIMIT))
             length == 7 + Length(doc.title) + 10 + Length(snippet)
         IN
         IF snippet = << >> THEN Assemble(Tail(docs), contextSections, currentLength)
         ELSE IF currentLength + length > MAX_CONTEXT_CHARS /\ Len(contextSections) > 0
         THEN contextSections
         ELSE LET accepted == Append(contextSections,
                      [title |-> doc.title, snippet |-> snippet, length |-> length])
              IN
              IF currentLength + length >= MAX_CONTEXT_CHARS THEN accepted
              ELSE Assemble(Tail(docs), accepted, currentLength + length)

\* contextSections as generateAIReply called by userId builds it
ContextSections(userId, caseId) ==
    Assemble(SortByLastModified(Filter(GetCaseDocuments(userId, caseId))), << >>, 0)

\* what client.chat.completions.create can do: throw, or return a completion
\* whose first choice has no content, or has the content given
Throws == [threw |-> TRUE, hasContent |-> FALSE, content |-> << >>]
NoContent == [threw |-> FALSE, hasContent |-> FALSE, content |-> << >>]
Content(t) == [threw |-> FALSE, hasContent |-> TRUE, content |-> t]
Completions ==
    {Throws, NoContent, Content(<< >>), Content(Txt("\n", 2)),
     Content(Txt(" ", 1) \o Txt("A", 3) \o Txt("\n", 1))}

Reply(value, apiCalled) == [threw |-> FALSE, value |-> value, apiCalled |-> apiCalled]
Thrown == [threw |-> TRUE, value |-> << >>, apiCalled |-> FALSE]

\* the completion's text without the fallback
CompletionTextMut(completion) ==
    IF completion.hasContent THEN Trim(completion.content) ELSE << >>

\* the completion's text without the trim
CompletionTextNoTrimMut(completion) ==
    LET aiResponse == IF completion.hasContent THEN completion.content ELSE << >>
    IN IF aiResponse # << >> THEN aiResponse ELSE MsgNoResponse

\* completion.choices[0]?.message?.content?.trim() || fallback
CompletionText(completion) ==
    LET aiResponse == IF completion.hasContent THEN Trim(completion.content) ELSE << >>
    IN IF aiResponse # << >> THEN aiResponse ELSE MsgNoResponse

\* generateAIReply without the test of the credential
GenerateAIReplyNoKeyMut(userId, caseId, apiKey, completion) ==
    LET caseDoc == GetCase(userId, caseId)
        caseDocuments == GetCaseDocuments(userId, caseId)
        docs == SortByLastModified(Filter(caseDocuments))
        contextSections == Assemble(docs, << >>, 0)
    IN
    IF ~caseDoc.exists THEN Thrown
    ELSE IF Len(docs) = 0 THEN Reply(MsgAddDocuments, FALSE)
    ELSE IF Len(contextSections) = 0 THEN Reply(MsgNoUsableText, FALSE)
    ELSE IF completion.threw THEN Reply(MsgUnreachable, TRUE)
    ELSE Reply(CompletionText(completion), TRUE)

\* generateAIReply without the catch
GenerateAIReplyNoCatchMut(userId, caseId, apiKey, completion) ==
    LET caseDoc == GetCase(userId, caseId)
        caseDocuments == GetCaseDocuments(userId, caseId)
        docs == SortByLastModified(Filter(caseDocuments))
        contextSections == Assemble(docs, << >>, 0)
    IN
    IF ~caseDoc.exists THEN Thrown
    ELSE IF Len(docs) = 0 THEN Reply(MsgAddDocuments, FALSE)
    ELSE IF Len(contextSections) = 0 THEN Reply(MsgNoUsableText, FALSE)
    ELSE IF ~apiKey THEN Reply(MsgNotConfigured, FALSE)
    ELSE IF completion.threw THEN [threw |-> TRUE, value |-> << >>, apiCalled |-> TRUE]
    ELSE Reply(CompletionText(completion), TRUE)

\* generateAIReply, called by userId; apiKey: whether CONVEX_OPENAI_API_KEY is
\* set; completion: what the completion API does if it is called
GenerateAIReply(userId, caseId, apiKey, completion) ==
    LET caseDoc == GetCase(userId, caseId)
        caseDocuments == GetCaseDocuments(userId, caseId)
        docs == SortByLastModified(Filter(caseDocuments))
        contextSections == Assemble(docs, << >>, 0)
    IN
    IF ~caseDoc.exists THEN Thrown
    ELSE IF Len(docs) = 0 THEN Reply(MsgAddDocuments, FALSE)
    ELSE IF Len(contextSections) = 0 THEN Reply(MsgNoUsableText, FALSE)
    ELSE IF ~apiKey THEN Reply(MsgNotConfigured, FALSE)
    ELSE IF completion.threw THEN Reply(MsgUnreachable, TRUE)
    ELSE Reply(CompletionText(completion), TRUE)

\* a client calls the public action generateAIReply
GenerateAIReplyCall(userId, caseId, apiKey, completion) ==
    LET reply == GenerateAIReply(userId, caseId, apiKey, completion) IN
    /\ result' = IF reply.threw
                 THEN Outcome("generateAIReply", "Case not found or access denied",
                              << >>, FALSE)
                 ELSE Outcome("generateAIReply", "", reply.value, reply.apiCalled)
    /\ UNCHANGED dbVars
    /\ UNCHANGED chatVars

\* -------------------------------------------------- sendMessageToCaseAI --
Question == Txt("q", 9)

\* the case keeps one message per author and kind, which a new one replaces
InsertCaseMessageUpsertMut(caseId, authorId, content, timestamp, isAI) ==
    LET same == {i \in DOMAIN chatMessages :
                    /\ chatMessages[i].caseId = caseId
                    /\ chatMessages[i].authorId = authorId
                    /\ chatMessages[i].isAI = isAI}
        message == [caseId |-> caseId, authorId |-> authorId, content |-> content,
                    timestamp |-> timestamp, isAI |-> isAI]
    IN
    chatMessages' = IF same = {} THEN Append(chatMessages, message)
                    ELSE [chatMessages EXCEPT ![CHOOSE i \in same : TRUE] = message]

\* chat.insertCaseUserMessage / chat.insertCaseAIMessage
InsertCaseMessage(caseId, authorId, content, timestamp, isAI) ==
    chatMessages' = Append(chatMessages,
        [caseId |-> caseId, authorId |-> authorId, content |-> content,
         timestamp |-> timestamp, isAI |-> isAI])

\* a client calls sendMessageToCaseAI
SendMessageToCaseAI(userId, caseId, content) ==
    /\ sends' = Append(sends,
          [userId |-> userId, caseId |-> caseId, content |-> content,
           pc |-> "AuthCheck", timestamp |-> 0, userMsgId |-> 0,
           aiResponse |-> << >>, apiCalled |-> FALSE, aiMsgId |-> 0])
    /\ UNCHANGED <<chatMessages, now, result>>
    /\ UNCHANGED dbVars

\* the reply is generated before the user's message is stored
AuthCheckMut(o) ==
    LET op == sends[o]
        caseDoc == GetCase(op.userId, op.caseId)
    IN
    /\ op.pc = "AuthCheck"
    /\ IF op.userId = NoUser \/ AccessDenied(caseDoc, op.userId)
       THEN sends' = [sends EXCEPT ![o].pc = "Rejected"]
       ELSE sends' = [sends EXCEPT ![o].pc = "GenerateReply",
                                   ![o].timestamp = now]
    /\ UNCHANGED <<chatMessages, now, result>>
    /\ UNCHANGED dbVars

\* getAuthenticatedUser, getCase, the owner test, and the user message's stamp
AuthCheck(o) ==
    LET op == sends[o]
        caseDoc == GetCase(op.userId, op.caseId)
    IN
    /\ op.pc = "AuthCheck"
    /\ IF op.userId = NoUser \/ AccessDenied(caseDoc, op.userId)
       THEN sends' = [sends EXCEPT ![o].pc = "Rejected"]
       ELSE sends' = [sends EXCEPT ![o].pc = "PersistUserMessage",
                                   ![o].timestamp = now]
    /\ UNCHANGED <<chatMessages, now, result>>
    /\ UNCHANGED dbVars

PersistUserMessage(o) ==
    LET op == sends[o] IN
    /\ op.pc = "PersistUserMessage"
    /\ InsertCaseMessage(op.caseId, op.userId, op.content, op.timestamp, FALSE)
    /\ sends' = [sends EXCEPT ![o].pc = "GenerateReply",
                              ![o].userMsgId = Len(chatMessages) + 1]
    /\ UNCHANGED <<now, result>>
    /\ UNCHANGED dbVars

\* a failed completion call ends the operation
GenerateReplyMut(o, apiKey, completion) ==
    LET op == sends[o]
        reply == GenerateAIReply(op.userId, op.caseId, apiKey, completion)
    IN
    /\ op.pc = "GenerateReply"
    /\ IF reply.threw \/ reply.value = MsgUnreachable
       THEN sends' = [sends EXCEPT ![o].pc = "Failed"]
       ELSE sends' = [sends EXCEPT ![o].pc = "PersistAIMessage",
                                   ![o].aiResponse = reply.value,
                                   ![o].apiCalled = reply.apiCalled]
    /\ UNCHANGED <<chatMessages, now, result>>
    /\ UNCHANGED dbVars

GenerateReply(o, apiKey, completion) ==
    LET op == sends[o]
        reply == GenerateAIReply(op.userId, op.caseId, apiKey, completion)
    IN
    /\ op.pc = "GenerateReply"
    /\ IF reply.threw
       THEN sends' = [sends EXCEPT ![o].pc = "Failed"]
       ELSE sends' = [sends EXCEPT ![o].pc = "PersistAIMessage",
                                   ![o].aiResponse = reply.value,
                                   ![o].apiCalled = reply.apiCalled]
    /\ UNCHANGED <<chatMessages, now, result>>
    /\ UNCHANGED dbVars

\* a fallback string is not stored
PersistAIMessageMut(o) ==
    LET op == sends[o] IN
    /\ op.pc = "PersistAIMessage"
    /\ IF op.apiCalled
       THEN InsertCaseMessage(op.caseId, op.userId, op.aiResponse, now, TRUE)
       ELSE UNCHANGED chatMessages
    /\ sends' = [sends EXCEPT ![o].pc = "Return",
                              ![o].aiMsgId = Len(chatMessages) + 1]
    /\ UNCHANGED <<now, result>>
    /\ UNCHANGED dbVars

PersistAIMessage(o) ==
    LET op == sends[o] IN
    /\ op.pc = "PersistAIMessage"
    /\ InsertCaseMessage(op.caseId, op.userId, op.aiResponse, now, TRUE)
    /\ sends' = [sends EXCEPT ![o].pc = "Return",
                              ![o].aiMsgId = Len(chatMessages) + 1]
    /\ UNCHANGED <<now, result>>
    /\ UNCHANGED dbVars

\* time passes
Tick ==
    /\ now' = now + 1
    /\ UNCHANGED <<chatMessages, sends, result>>
    /\ UNCHANGED dbVars
    /\ UNCHANGED restVars

\* ------------------------------------------------------ specifications ---
vars == <<cases, documents, auditLogs, chatMessages, sends, now, result,
          calls, files, uploads, aiChats, aiChatMessages, aiSends>>

\* nothing uploaded, no workspace chat and no call in flight
InitRest ==
    /\ calls = << >>
    /\ files = << >>
    /\ uploads = << >>
    /\ aiChats = << >>
    /\ aiChatMessages = << >>
    /\ aiSends = << >>

NewDocument(d, content) ==
    [exists |-> TRUE, title |-> Txt("t", 5), content |-> content,
     caseId |-> NoCase, lastModifiedAt |-> 100 * d]

InitStore ==
    /\ cases = << >>
    /\ auditLogs = 0
    /\ chatMessages = << >>
    /\ sends = << >>
    /\ now = 0
    /\ result = Outcome("", "", << >>, FALSE)
    /\ InitRest

\* the library holds a document that is either text or blank, and one of
\* multi-byte text
Init ==
    /\ InitStore
    /\ \E c \in {TextDoc, BlankDoc} :
          documents = [d \in DocIds |-> NewDocument(d, IF d = 1 THEN c ELSE AccentDoc)]

Create(caseIds) ==
    /\ Cardinality(DOMAIN cases) < Cardinality(caseIds)
    /\ \E u \in Callers : CreateCase(u, "n1")
    /\ UNCHANGED restVars

Attach(caseIds) ==
    /\ \E u \in Callers, c \in caseIds, d \in DocIds \cup {MissingDoc} :
          AddDocumentToCase(u, c, d)
    /\ UNCHANGED restVars

Detach(caseIds) ==
    /\ \E u \in Callers, c \in caseIds, d \in DocIds \cup {MissingDoc} :
          RemoveDocumentFromCase(u, c, d)
    /\ UNCHANGED restVars

Update(caseIds) ==
    /\ \E u \in Callers, c \in caseIds, n \in {"n2", Undefined} : UpdateCase(u, c, n)
    /\ UNCHANGED restVars

Delete(caseIds) ==
    /\ \E u \in Callers, c \in caseIds : DeleteCase(u, c)
    /\ UNCHANGED restVars

Generate(caseIds) ==
    /\ \E u \in Callers, c \in caseIds :
          \/ GenerateAIReplyCall(u, c, FALSE, NoContent)
          \/ \E r \in Completions : GenerateAIReplyCall(u, c, TRUE, r)
    /\ UNCHANGED restVars

Send(caseIds) ==
    /\ Len(sends) < MaxSends
    /\ \E u \in Callers, c \in caseIds : SendMessageToCaseAI(u, c, Question)
    /\ UNCHANGED restVars

Step ==
    /\ \E o \in DOMAIN sends :
          \/ AuthCheck(o)
          \/ PersistUserMessage(o)
          \/ GenerateReply(o, FALSE, NoContent)
          \/ \E r \in Completions : GenerateReply(o, TRUE, r)
          \/ PersistAIMessage(o)
    /\ UNCHANGED restVars

\* the mutations and the case chat on one case
Next ==
    \/ auditLogs < MaxAudit /\ Create(OneCase)
    \/ auditLogs < MaxAudit /\ Attach(OneCase)
    \/ auditLogs < MaxAudit /\ Detach(OneCase)
    \/ auditLogs < MaxAudit /\ Delete(OneCase)
    \/ Update(OneCase)
    \/ Send(OneCase)
    \/ Step
    \/ now < MaxClock /\ Tick

Spec == Init /\ [][Next]_vars

\* the reply generator called on its own, on cases whose documents change
NextGenerator ==
    \/ auditLogs < MaxAuditGenerator /\ Create(CaseIds)
    \/ auditLogs < MaxAuditGenerator /\ Attach(CaseIds)
    \/ auditLogs < MaxAuditGenerator /\ Detach(CaseIds)
    \/ auditLogs < MaxAuditGenerator /\ Delete(CaseIds)
    \/ Generate(CaseIds)

SpecGenerator == Init /\ [][NextGenerator]_vars

\* the mutations and the case chat called on two case ids, of which the
\* second may have no record
NextAccess ==
    \/ auditLogs < MaxAuditAccess /\ Create(CaseIds)
    \/ auditLogs < MaxAuditAccess /\ Attach(CaseIds)
    \/ auditLogs < MaxAuditAccess /\ Detach(CaseIds)
    \/ auditLogs < MaxAuditAccess /\ Delete(CaseIds)
    \/ Update(CaseIds)
    \/ Send(CaseIds)
    \/ Step

SpecAccess == Init /\ [][NextAccess]_vars

\* a document grows under the editor while it is attached
Edit ==
    /\ \E d \in DocIds :
          /\ documents[d].lastModifiedAt < 100 * d + MaxEdits
          /\ EditDocument(d, LongDoc)
    /\ UNCHANGED restVars

\* attach and detach on one case, with documents that are edited in between
NextFloor ==
    \/ auditLogs < MaxAuditFloor /\ Create(OneCase)
    \/ auditLogs < MaxAuditFloor /\ Attach(OneCase)
    \/ auditLogs < MaxAuditFloor /\ Detach(OneCase)
    \/ auditLogs < MaxAuditFloor /\ Delete(OneCase)
    \/ Edit

SpecFloor == Init /\ [][NextFloor]_vars

\* the next awaited call of operation o returns
Advance(o) ==
    /\ o \in DOMAIN sends
    /\ \/ AuthCheck(o)
       \/ PersistUserMessage(o)
       \/ GenerateReply(o, FALSE, NoContent)
       \/ \E r \in Completions : GenerateReply(o, TRUE, r)
       \/ PersistAIMessage(o)
    /\ UNCHANGED restVars

\* an action runs on the server until its handler ends, and each query,
\* mutation and completion call it awaits returns or fails in finite time
Fairness == \A o \in 1..MaxSends : WF_vars(Advance(o))

\* the case chat next to the mutations that change what the generator reads
NextLive ==
    \/ auditLogs < MaxAuditLive /\ Create(OneCase)
    \/ auditLogs < MaxAuditLive /\ Attach(OneCase)
    \/ auditLogs < MaxAuditLive /\ Delete(OneCase)
    \/ Send(OneCase)
    \/ Step

SpecLive == Init /\ [][NextLive]_vars /\ Fairness

\* the mutations of cases.ts on two cases
NextCases ==
    \/ auditLogs < MaxAuditCases /\ Create(CaseIds)
    \/ auditLogs < MaxAuditCases /\ Attach(CaseIds)
    \/ auditLogs < MaxAuditCases /\ Detach(CaseIds)
    \/ auditLogs < MaxAuditCases /\ Delete(CaseIds)
    \/ Update(CaseIds)

SpecCases == Init /\ [][NextCases]_vars

\* a case filled up to its limits, with a document of 20 MiB in the library
InitLimit ==
    /\ InitStore
    /\ documents = [d \in DocIds |-> NewDocument(d, IF d = 1 THEN TextDoc ELSE BigDoc)]

NextLimit ==
    \/ auditLogs < MaxAuditLimit /\ Create(OneCase)
    \/ auditLogs < MaxAuditLimit /\ Attach(OneCase)
    \/ auditLogs < MaxAuditLimit /\ Detach(OneCase)
    \/ auditLogs < MaxAuditLimit /\ Delete(OneCase)

SpecLimit == InitLimit /\ [][NextLimit]_vars

\* a case of u1 with three documents attached (createCase and three
\* addDocumentToCase have run); the titles, contents and modification stamps
\* are drawn from sets that put the context at, under and over its budget
TitleSymbol == <<"a", "b", "c">>
ContextDocIds == {1, 2, 3}
ContextStamps == {200, 300, 400}

CaseDocument(d, titleLength, content, lastModifiedAt) ==
    [exists |-> TRUE, title |-> Txt(TitleSymbol[d], titleLength), content |-> content,
     caseId |-> 1, lastModifiedAt |-> lastModifiedAt]

InitContext ==
    /\ auditLogs = 4
    /\ chatMessages = << >>
    /\ sends = << >>
    /\ now = 0
    /\ result = Outcome("", "", << >>, FALSE)
    /\ InitRest
    /\ \E t1 \in {5, 9983, 12500}, t2 \in {5, 9983},
          c1 \in {TextDoc, LongDoc, LateDoc, PaddedDoc},
          c2 \in {TextDoc, BlankDoc, LongDoc, LateDoc},
          c3 \in {TextDoc, LongDoc, LateDoc},
          stamp \in [ContextDocIds -> ContextStamps] :
          documents = (1 :> CaseDocument(1, t1, c1, stamp[1]))
                   @@ (2 :> CaseDocument(2, t2, c2, stamp[2]))
                   @@ (3 :> CaseDocument(3, 5, c3, stamp[3]))
    /\ cases = (1 :> [exists |-> TRUE, name |-> "n1", createdBy |-> "u1",
                      isActive |-> TRUE,
                      totalSize |-> ByteLength(documents[1].content)
                                    + ByteLength(documents[2].content)
                                    + ByteLength(documents[3].content),
                      documentCount |-> 3])

NextContext == Generate(OneCase)

SpecContext == InitContext /\ [][NextContext]_vars

\* ---------------------------------------------------------------------
\* the aggregates of a case against the documents assigned to it
Attached(caseId) == {d \in DOMAIN documents : documents[d].caseId = caseId}

RECURSIVE SizeOf(_)
SizeOf(docs) ==
    IF docs = {} THEN 0
    ELSE LET d == CHOOSE x \in docs : TRUE
         IN ByteLength(documents[d].content) + SizeOf(docs \ {d})

\* C1: every case's documentCount is the number of documents whose caseId
\* is that case.
CountMatchesDocuments ==
    \A c \in DOMAIN cases : cases[c].documentCount = Cardinality(Attached(c))

\* C2: every case's totalSize is the sum of the byte sizes of the content of
\* the documents whose caseId is that case.
SizeMatchesDocuments ==
    \A c \in DOMAIN cases : cases[c].totalSize = SizeOf(Attached(c))

\* C3: attaching a document to the case it is already attached to is rejected
\* or is a no-op: the case's documentCount and totalSize stay as they were,
\* so the document is counted once.
AttachIsIdempotent ==
    [][\A u \in Callers, c \in CaseIds, d \in DocIds :
          (/\ c \in DOMAIN cases
           /\ documents[d].caseId = c
           /\ AddDocumentToCase(u, c, d))
          => /\ cases'[c].documentCount = cases[c].documentCount
             /\ cases'[c].totalSize = cases[c].totalSize]_vars

\* C4: in every reachable state every case has documentCount <= 30 and
\* totalSize <= 50 MiB.
LimitsRespected ==
    \A c \in DOMAIN cases :
        /\ cases[c].documentCount <= MAX_DOCUMENTS
        /\ cases[c].totalSize <= MAX_TOTAL_SIZE

\* a case holds 30 documents, and more than 30 MiB
CaseIsFull ==
    \E c \in DOMAIN cases :
        /\ cases[c].documentCount = MAX_DOCUMENTS
        /\ cases[c].totalSize > 30 * 1024 * 1024

LimitErrors == {"Case document limit reached", "Case size limit reached"}

\* C5: an attach by the owner to a case that already counts 30 documents, or
\* whose totalSize plus the document's size would exceed 50 MiB, fails with a
\* limit error, and a call that fails with a limit error leaves the cases, the
\* documents and the audit log as they were.
LimitFailureChangesNothing ==
    [][/\ result'.error \in LimitErrors => UNCHANGED dbVars
       /\ \A u \in Users, c \in OneCase, d \in DocIds :
            (/\ ~AccessDenied(GetCaseDoc(c), u)
             /\ \/ cases[c].documentCount >= MAX_DOCUMENTS
                \/ cases[c].totalSize + ByteLength(documents[d].content) > MAX_TOTAL_SIZE
             /\ AddDocumentToCase(u, c, d))
            => /\ result'.error \in LimitErrors
               /\ UNCHANGED dbVars]_vars

\* the 31st attach was rejected and the count is still 30
ThirtyFirstRejected ==
    /\ result = Outcome("addDocumentToCase", "Case document limit reached", << >>, FALSE)
    /\ \E c \in DOMAIN cases : cases[c].documentCount = MAX_DOCUMENTS

\* ---------------------------------------------------------------------
\* the generator has been invoked for the operation
Generated(op) == op.pc \in {"PersistAIMessage", "Return", "Failed"}

\* the operation's user message is in the transcript
UserMessageStored(op) ==
    /\ op.userMsgId \in DOMAIN chatMessages
    /\ chatMessages[op.userMsgId] =
          [caseId |-> op.caseId, authorId |-> op.userId, content |-> op.content,
           timestamp |-> op.timestamp, isAI |-> FALSE]

\* the operation's assistant message is in the transcript
AIMessageStored(op) ==
    /\ op.aiMsgId \in DOMAIN chatMessages
    /\ chatMessages[op.aiMsgId].caseId = op.caseId
    /\ chatMessages[op.aiMsgId].isAI
    /\ chatMessages[op.aiMsgId].content = op.aiResponse

\* C6: the steps of one sendMessageToCaseAI operation happen in the order
\* AuthCheck, PersistUserMessage, GenerateReply, PersistAIMessage, Return: the
\* generator (and the completion API) is invoked only once the user's message
\* is stored, and an assistant message is stored only once the generator has
\* returned its answer or fallback, which is the text stored.
SendStepsInOrder ==
    \A o \in DOMAIN sends :
        LET op == sends[o] IN
        /\ (Generated(op) \/ op.apiCalled) => UserMessageStored(op)
        /\ op.pc \in {"AuthCheck", "Rejected", "PersistUserMessage"}
              => op.userMsgId = 0 /\ ~op.apiCalled
        /\ op.aiMsgId # 0
              => op.pc = "Return" /\ Length(op.aiResponse) > 0 /\ AIMessageStored(op)
        /\ op.pc # "Return" => op.aiMsgId = 0
        /\ op.userMsgId # 0 /\ op.aiMsgId # 0 => op.userMsgId < op.aiMsgId

\* an operation has returned after a call of the completion API
SendReturnedAnswer ==
    \E o \in DOMAIN sends : sends[o].pc = "Return" /\ sends[o].apiCalled

AuthErrors == {"Not authenticated", "Case not found or access denied"}

\* the caller is not the creator of the case (or nobody, or there is no case)
NotCreator(userId, caseId) ==
    \/ userId = NoUser
    \/ caseId \notin DOMAIN cases
    \/ cases[caseId].createdBy # userId

\* the call throws an authorization error and writes nothing
Refused == result'.error \in AuthErrors /\ UNCHANGED dbVars /\ UNCHANGED chatVars

\* C7: sendMessageToCaseAI, addDocumentToCase, removeDocumentFromCase,
\* updateCase and deleteCase called by an unauthenticated caller or by a user
\* who did not create the case are rejected, and no case, document, chat
\* message or audit-log record is created or changed and the completion API
\* is not called.
AuthorizationBeforeSideEffects ==
    [][/\ \A u \in Callers, c \in OneCase :
            NotCreator(u, c) =>
               /\ \A d \in DocIds \cup {MissingDoc} :
                     /\ AddDocumentToCase(u, c, d) => Refused
                     /\ RemoveDocumentFromCase(u, c, d) => Refused
               /\ \A n \in {"n2", Undefined} : UpdateCase(u, c, n) => Refused
               /\ DeleteCase(u, c) => Refused
       /\ \A o \in DOMAIN sends :
            /\ (NotCreator(sends[o].userId, sends[o].caseId) /\ AuthCheck(o))
                  => /\ sends'[o] = [sends[o] EXCEPT !.pc = "Rejected"]
                     /\ UNCHANGED dbVars
                     /\ UNCHANGED chatMessages
            /\ NotCreator(sends[o].userId, sends[o].caseId)
                  => /\ sends[o].pc \in {"AuthCheck", "Rejected"}
                     /\ sends'[o].pc \in {"AuthCheck", "Rejected"}
                     /\ ~sends'[o].apiCalled
                     /\ sends'[o].userMsgId = 0 /\ sends'[o].aiMsgId = 0]_vars

\* another user's deleteCase was rejected and another user's send was
\* rejected, with the case in place
StrangerRefused ==
    /\ 1 \in DOMAIN cases
    /\ result.op = "deleteCase"
    /\ result.error = "Case not found or access denied"
    /\ \E o \in DOMAIN sends :
          /\ sends[o].pc = "Rejected"
          /\ sends[o].userId \in Users
          /\ sends[o].userId # cases[1].createdBy

Fallbacks ==
    {MsgAddDocuments, MsgNoUsableText, MsgNotConfigured, MsgNoResponse, MsgUnreachable}

\* C8: an authorized sendMessageToCaseAI operation never fails after the
\* authorization check, and when it returns both a user message and an
\* assistant message of the operation are stored, the user message's timestamp
\* being <= the assistant message's, also when the reply is a fallback string.
BothMessagesStored ==
    \A o \in DOMAIN sends :
        LET op == sends[o] IN
        /\ op.pc # "Failed"
        /\ op.pc = "Return"
              => /\ UserMessageStored(op)
                 /\ AIMessageStored(op)
                 /\ chatMessages[op.userMsgId].timestamp
                       <= chatMessages[op.aiMsgId].timestamp

\* an operation has returned with a fallback string stored, later than the
\* user's message
FallbackStored ==
    \E o \in DOMAIN sends :
        /\ sends[o].pc = "Return"
        /\ sends[o].aiResponse \in Fallbacks
        /\ chatMessages[sends[o].userMsgId].timestamp
              < chatMessages[sends[o].aiMsgId].timestamp

\* C9 as stated: generateAIReply returns a non-empty string and never
\* throws, for any case id and any caller.
GeneratorNeverThrows ==
    result.op = "generateAIReply" => result.error = "" /\ Length(result.value) > 0

\* C9 as amended: for a caller who created the case, generateAIReply
\* returns a non-empty string and does not throw, whatever the documents, the
\* credential and the completion API's outcome; for any other caller or a
\* missing case it throws "Case not found or access denied".
GeneratorTotalForCreator ==
    \A u \in Callers, c \in CaseIds, k \in BOOLEAN, r \in Completions :
        LET reply == GenerateAIReply(u, c, k, r) IN
        /\ IF NotCreator(u, c)
           THEN reply.threw
           ELSE ~reply.threw /\ Length(reply.value) > 0
        /\ result.op = "generateAIReply"
              => \/ result.error = "Case not found or access denied"
                 \/ result.error = "" /\ Length(result.value) > 0

\* a completion failure came back as the fixed string
FailureDowngraded ==
    result = Outcome("generateAIReply", "", MsgUnreachable, TRUE)

\* no document of the case has text left after trimming
NoReadableText(caseId) ==
    \A d \in Attached(caseId) : Length(Trim(documents[d].content)) = 0

\* C10: when the case has no documents, or every document's content is empty
\* or whitespace after trimming, generateAIReply called by the case's creator
\* returns the "add documents" message and does not call the completion API,
\* with or without a credential.
NoDocumentsNoCompletion ==
    [][\A u \in Users, c \in CaseIds, k \in BOOLEAN, r \in Completions :
          (/\ result'.op = "generateAIReply"
           /\ ~NotCreator(u, c)
           /\ NoReadableText(c)
           /\ GenerateAIReplyCall(u, c, k, r))
             => result' = Outcome("generateAIReply", "", MsgAddDocuments, FALSE)]_vars

\* a call on a case whose only document is blank got the message
BlankCaseAnswered ==
    /\ result = Outcome("generateAIReply", "", MsgAddDocuments, FALSE)
    /\ \E c \in DOMAIN cases : Attached(c) # {} /\ NoReadableText(c)

\* ---------------------------------------------------------------------
\* the context assembled for the creator of a case
Accepted(caseId) == ContextSections(cases[caseId].createdBy, caseId)

\* `Title: ${title}\nContent:\n${snippet}` of a document, untruncated
SectionOf(doc) ==
    LET snippet == Trim(Slice(doc.content, PER_DOCUMENT_LIMIT)) IN
    [title |-> doc.title, snippet |-> snippet,
     length |-> 7 + Length(doc.title) + 10 + Length(snippet)]

\* the documents of the case that have text in their first 2,000 characters
RECURSIVE Usable(_)
Usable(docs) ==
    IF docs = << >> THEN << >>
    ELSE (IF SectionOf(Head(docs)).snippet # << >> THEN <<Head(docs)>> ELSE << >>)
         \o Usable(Tail(docs))

\* the usable documents with the most recently modified first
RECURSIVE Newest(_)
Newest(docs) ==
    IF Len(docs) <= 1 THEN docs
    ELSE LET n == CHOOSE i \in DOMAIN docs :
                     \A j \in DOMAIN docs :
                        \/ docs[i].lastModifiedAt > docs[j].lastModifiedAt
                        \/ docs[i].lastModifiedAt = docs[j].lastModifiedAt /\ i <= j
         IN <<docs[n]>> \o Newest(SubSeq(docs, 1, n - 1) \o SubSeq(docs, n + 1, Len(docs)))

UsableDocs(caseId) ==
    Newest(Usable(DocumentsByCase(caseId, Cardinality(DOMAIN documents))))

RECURSIVE SumLengths(_)
SumLengths(sections) ==
    IF sections = << >> THEN 0 ELSE Head(sections).length + SumLengths(Tail(sections))

\* C11: the lengths of the accepted context sections add up to at most
\* 12,000 characters, except when the first usable document's section alone
\* is longer than 12,000 characters: then exactly that one section is
\* accepted, in full.
ContextWithinBudget ==
    \A c \in DOMAIN cases :
        LET sections == Accepted(c)
            usable == UsableDocs(c)
        IN
        /\ \/ SumLengths(sections) <= MAX_CONTEXT_CHARS
           \/ /\ Len(sections) = 1
              /\ sections[1].length > MAX_CONTEXT_CHARS
              /\ sections[1] = SectionOf(usable[1])
        /\ (usable # << >> /\ SectionOf(usable[1]).length > MAX_CONTEXT_CHARS)
              => sections = <<SectionOf(usable[1])>>

\* an answer was generated from one section longer than the budget, two more
\* usable documents being left out
OversizeSectionAlone ==
    /\ result.op = "generateAIReply" /\ result.apiCalled
    /\ Len(Accepted(1)) = 1
    /\ Accepted(1)[1].length > MAX_CONTEXT_CHARS
    /\ Len(UsableDocs(1)) = 3

\* the document a section was made from (titles are distinct)
StampOf(section) ==
    LET d == CHOOSE x \in DOMAIN documents : documents[x].title = section.title
    IN documents[d].lastModifiedAt

HasUsableText(caseId) ==
    \E d \in Attached(caseId) :
        Trim(Slice(documents[d].content, PER_DOCUMENT_LIMIT)) # << >>

\* C13: whenever a document of the case has a non-empty snippet after the
\* 2,000-character truncation and trim, at least one section is accepted,
\* also when the first such section alone is longer than the budget, and the
\* creator's call gets past the "no usable text" answers.
AtLeastOneSection ==
    \A c \in DOMAIN cases :
        HasUsableText(c) =>
           /\ Len(Accepted(c)) >= 1
           /\ \A k \in BOOLEAN, r \in Completions :
                 GenerateAIReply(cases[c].createdBy, c, k, r).value
                    \notin {MsgAddDocuments, MsgNoUsableText}

\* the only usable document has a section longer than the budget, and the
\* call was answered from it
OnlyOversizeAccepted ==
    /\ result.op = "generateAIReply" /\ result.apiCalled
    /\ Len(UsableDocs(1)) = 1
    /\ SectionOf(UsableDocs(1)[1]).length > MAX_CONTEXT_CHARS
    /\ Accepted(1) = <<SectionOf(UsableDocs(1)[1])>>

\* C14: a document whose content has text but whose first 2,000 characters
\* are all whitespace gives no section; when every document that passes the
\* filter is skipped this way, generateAIReply called by the creator returns
\* the "no usable text" message, which is not an answer of the completion
\* API, and the completion API is not called, with or without a credential.
BlankPrefixSkipped ==
    \A c \in DOMAIN cases :
        /\ \A i \in DOMAIN Accepted(c) :
              /\ Accepted(c)[i].snippet # << >>
              /\ \A d \in Attached(c) :
                    documents[d].title = Accepted(c)[i].title
                       => Trim(Slice(documents[d].content, PER_DOCUMENT_LIMIT)) # << >>
        /\ (~NoReadableText(c) /\ ~HasUsableText(c)) =>
              /\ \A k \in BOOLEAN, r \in Completions :
                    GenerateAIReply(cases[c].createdBy, c, k, r)
                       = Reply(MsgNoUsableText, FALSE)
              /\ (result.op = "generateAIReply" /\ result.error = "")
                    => result = Outcome("generateAIReply", "", MsgNoUsableText, FALSE)

\* a call on a case whose documents with text all begin with 2,000 blanks
\* got the "no usable text" message
NoUsableTextAnswered ==
    /\ result = Outcome("generateAIReply", "", MsgNoUsableText, FALSE)
    /\ \E d \in Attached(1) : documents[d].content = LateDoc

Min(a, b) == IF a <= b THEN a ELSE b

\* C15: the text a snippet is trimmed from is the first 2,000 characters of
\* the document's content (all of it when it is shorter), never more, so the
\* content part of a section is at most 2,000 characters long.
TruncatedToLimit ==
    \A c \in DOMAIN cases :
        /\ \A d \in Attached(c) :
              Length(Slice(documents[d].content, PER_DOCUMENT_LIMIT))
                 = Min(Length(documents[d].content), PER_DOCUMENT_LIMIT)
        /\ \A i \in DOMAIN Accepted(c) :
              /\ Length(Accepted(c)[i].snippet) <= PER_DOCUMENT_LIMIT
              /\ \A d \in Attached(c) :
                    documents[d].title = Accepted(c)[i].title
                       => Length(Accepted(c)[i].snippet) <= Length(documents[d].content)

\* an answer was generated from a section holding exactly the first 2,000
\* characters of a document of 2,500
LongDocumentCut ==
    /\ result.op = "generateAIReply" /\ result.apiCalled
    /\ \E i \in DOMAIN Accepted(1), d \in Attached(1) :
          /\ documents[d].content = LongDoc
          /\ Accepted(1)[i].title = documents[d].title
          /\ Accepted(1)[i].snippet = Txt("x", PER_DOCUMENT_LIMIT)

\* ---------------------------------------------------------------------
\* the assistant message the operation's last step stores
AIMessageOf(op, timestamp) ==
    [caseId |-> op.caseId, authorId |-> op.userId, content |-> op.aiResponse,
     timestamp |-> timestamp, isAI |-> TRUE]

\* the generator's step of operation o ends with this reply, to be stored
Replied(o, value, apiCalled) ==
    sends'[o] = [sends[o] EXCEPT !.pc = "PersistAIMessage",
                                 !.aiResponse = value, !.apiCalled = apiCalled]

\* C16: when the case has usable text and the credential is not configured,
\* generateAIReply returns the "not configured" message without calling the
\* completion API and without throwing, and sendMessageToCaseAI stores that
\* message as the assistant's reply.
NotConfiguredIsStored ==
    [][/\ \A c \in DOMAIN cases, r \in Completions :
            HasUsableText(c) =>
               GenerateAIReply(cases[c].createdBy, c, FALSE, r)
                  = Reply(MsgNotConfigured, FALSE)
       /\ \A o \in DOMAIN sends :
            /\ (HasUsableText(sends[o].caseId) /\ GenerateReply(o, FALSE, NoContent))
                  => Replied(o, MsgNotConfigured, FALSE)
            /\ (sends[o].aiResponse = MsgNotConfigured /\ PersistAIMessage(o))
                  => /\ chatMessages' = Append(chatMessages, AIMessageOf(sends[o], now))
                     /\ sends'[o].pc = "Return"
                     /\ ~sends'[o].apiCalled]_vars

\* an operation returned with the "not configured" message stored
NotConfiguredStored ==
    \E o \in DOMAIN sends :
        /\ sends[o].pc = "Return"
        /\ sends[o].aiResponse = MsgNotConfigured
        /\ chatMessages[sends[o].aiMsgId] = AIMessageOf(sends[o], chatMessages[sends[o].aiMsgId].timestamp)

Textless(completion) ==
    /\ ~completion.threw
    /\ ~completion.hasContent \/ Trim(completion.content) = << >>

\* C18: when the completion API succeeds but its text is missing, empty or
\* whitespace-only, generateAIReply returns the "couldn't generate a response"
\* message, and no assistant message stored for a send is empty.
EmptyCompletionReplaced ==
    /\ \A r \in Completions : Textless(r) => CompletionText(r) = MsgNoResponse
    /\ \A c \in DOMAIN cases, r \in Completions :
          (HasUsableText(c) /\ Textless(r)) =>
             GenerateAIReply(cases[c].createdBy, c, TRUE, r) = Reply(MsgNoResponse, TRUE)
    /\ \A o \in DOMAIN sends :
          sends[o].pc \in {"PersistAIMessage", "Return"}
             => Length(Trim(sends[o].aiResponse)) > 0
    /\ \A i \in DOMAIN chatMessages :
          chatMessages[i].isAI => Length(Trim(chatMessages[i].content)) > 0

\* an operation returned with the "couldn't generate a response" message
\* stored after a call of the completion API
NoResponseStored ==
    \E o \in DOMAIN sends :
        /\ sends[o].pc = "Return"
        /\ sends[o].apiCalled
        /\ sends[o].aiResponse = MsgNoResponse
        /\ chatMessages[sends[o].aiMsgId].content = MsgNoResponse
        /\ chatMessages[sends[o].aiMsgId].isAI

\* C19: once the user's message of a send operation is stored, an assistant
\* message of that operation is eventually stored; the operation never ends
\* with the user message stored and no assistant message.
AssistantMessageLands ==
    \A o \in 1..MaxSends :
        (o \in DOMAIN sends /\ sends[o].userMsgId # 0)
           ~> (/\ o \in DOMAIN sends
               /\ sends[o].pc = "Return"
               /\ UserMessageStored(sends[o])
               /\ AIMessageStored(sends[o]))

\* the case was deleted while the reply was being generated, and the
\* assistant message was stored all the same
ReplyLandedAfterDelete ==
    \E o \in DOMAIN sends :
        /\ sends[o].pc = "Return"
        /\ UserMessageStored(sends[o])
        /\ AIMessageStored(sends[o])
        /\ ~cases[sends[o].caseId].isActive

\* ---------------------------------------------------------------------
\* C20: deleteCase is a soft delete: after it succeeds the case record still
\* exists with its active flag cleared, no document has the case as its
\* caseId, and every document still exists with its title and content
\* unchanged (as does every document of another case, with its caseId).
DeleteIsSoft ==
    [][\A u \in Callers, c \in CaseIds :
          (DeleteCase(u, c) /\ result'.error = "") =>
             /\ c \in DOMAIN cases'
             /\ DOMAIN cases' = DOMAIN cases
             /\ cases'[c] = [cases[c] EXCEPT !.isActive = FALSE]
             /\ \A d \in DOMAIN documents' : documents'[d].caseId # c
             /\ DOMAIN documents' = DOMAIN documents
             /\ \A d \in DOMAIN documents :
                   /\ documents'[d].exists
                   /\ documents'[d].title = documents[d].title
                   /\ documents'[d].content = documents[d].content
                   /\ documents[d].caseId # c
                         => documents'[d].caseId = documents[d].caseId]_vars

\* a case that a document was attached to has been deleted: the record is
\* there, inactive, with no document; the other case still has its document
CaseSoftDeleted ==
    /\ result = Outcome("deleteCase", "", << >>, FALSE)
    /\ \E c \in DOMAIN cases :
          /\ ~cases[c].isActive
          /\ cases[c].documentCount >= 1
          /\ Attached(c) = {}
          /\ \E e \in DOMAIN cases : e # c /\ cases[e].isActive /\ Attached(e) # {}

\* ---------------------------------------------------------------------
\* user did not create the case, which exists
Foreign(userId, caseId) ==
    caseId \in DOMAIN cases /\ cases[caseId].createdBy # userId

\* C21: for a signed-in user, getCase, getCaseMessages, getCaseDocuments,
\* addDocumentToCase, removeDocumentFromCase, updateCase, deleteCase and
\* sendMessageToCaseAI have the same outcome on a case somebody else created
\* as on a case id that has no record: the queries return the same value, a
\* step is the mutation on the one exactly when it is the mutation on the
\* other, and the send is rejected with nothing written.
NoExistenceLeak ==
    [][/\ \A u \in Users, c \in CaseIds, e \in CaseIds :
            (Foreign(u, c) /\ e \notin DOMAIN cases) =>
               /\ GetCase(u, c) = GetCase(u, e)
               /\ GetCaseMessages(u, c) = GetCaseMessages(u, e)
               /\ GetCaseDocuments(u, c) = GetCaseDocuments(u, e)
               /\ \A d \in DocIds \cup {MissingDoc} :
                     /\ AddDocumentToCase(u, c, d) <=> AddDocumentToCase(u, e, d)
                     /\ RemoveDocumentFromCase(u, c, d) <=> RemoveDocumentFromCase(u, e, d)
               /\ \A n \in {"n2", Undefined} : UpdateCase(u, c, n) <=> UpdateCase(u, e, n)
               /\ DeleteCase(u, c) <=> DeleteCase(u, e)
       /\ \A o \in DOMAIN sends :
            (/\ sends[o].userId \in Users
             /\ \/ Foreign(sends[o].userId, sends[o].caseId)
                \/ sends[o].caseId \notin DOMAIN cases
             /\ AuthCheck(o))
               => /\ sends' = [sends EXCEPT ![o].pc = "Rejected"]
                  /\ UNCHANGED <<chatMessages, now, result>>
                  /\ UNCHANGED dbVars]_vars

\* with a document in another user's case and a case id without a record,
\* a signed-in user's mutation and send were refused
StrangerSawNothing ==
    /\ result.error = "Case not found or access denied"
    /\ 1 \in DOMAIN cases /\ 2 \notin DOMAIN cases
    /\ Attached(1) # {}
    /\ \E o \in DOMAIN sends :
          /\ sends[o].pc = "Rejected"
          /\ Foreign(sends[o].userId, 1) /\ sends[o].userId \in Users

\* ---------------------------------------------------------------------
\* C22: the counters of a case never go below zero, whatever the sequence of
\* attach and detach operations: a detach of a document larger than the
\* case's totalSize leaves totalSize at zero, and a detach from a count of
\* zero leaves the count at zero.
FloorAtZero ==
    [][/\ \A c \in DOMAIN cases' :
            cases'[c].documentCount >= 0 /\ cases'[c].totalSize >= 0
       /\ \A u \in Users, c \in OneCase, d \in DocIds :
            (RemoveDocumentFromCase(u, c, d) /\ result'.error = "") =>
               /\ cases[c].totalSize < ByteLength(documents[d].content)
                     => cases'[c].totalSize = 0
               /\ cases[c].documentCount = 0 => cases'[c].documentCount = 0]_vars

\* a document that grew to 2,500 bytes after it was attached has been
\* detached from a case that counted less, and the case's totalSize is zero
\* with the other document still attached
DetachedBelowZero ==
    /\ result = Outcome("removeDocumentFromCase", "", << >>, FALSE)
    /\ \E c \in DOMAIN cases, d \in DOMAIN documents :
          /\ cases[c].totalSize = 0
          /\ cases[c].documentCount = 1
          /\ Attached(c) # {}
          /\ documents[d].caseId = NoCase
          /\ documents[d].content = LongDoc

\* C27: the accepted context sections are the sections of the first k usable
\* documents, newest first, for some k: after a document is rejected for the
\* budget no older document is accepted, even one whose section would fit.
AcceptedIsPrefix ==
    \A c \in DOMAIN cases :
        LET sections == Accepted(c)
            usable == UsableDocs(c)
        IN
        /\ Len(sections) <= Len(usable)
        /\ \A i \in DOMAIN sections : sections[i] = SectionOf(usable[i])

\* an answer was generated from one section, the second usable document was
\* rejected for the budget and the third, whose section would have fitted,
\* was left out too
OlderFittingDocumentLeftOut ==
    /\ result.op = "generateAIReply" /\ result.apiCalled
    /\ Len(Accepted(1)) = 1
    /\ Len(UsableDocs(1)) = 3
    /\ Accepted(1)[1].length + SectionOf(UsableDocs(1)[2]).length > MAX_CONTEXT_CHARS
    /\ Accepted(1)[1].length + SectionOf(UsableDocs(1)[3]).length <= MAX_CONTEXT_CHARS

\* ---------------------------------------------------------------------
\* C24: only the creator of a case changes which documents are attached to
\* it: no addDocumentToCase, removeDocumentFromCase or deleteCase called by
\* anybody else changes the caseId of a document that is attached to it.
OnlyOwnerMovesDocuments ==
    [][\A u \in Callers, c \in CaseIds, d \in DocIds :
          LET from == documents[d].caseId IN
          (/\ from # NoCase
           /\ cases[from].createdBy # u
           /\ \/ AddDocumentToCase(u, c, d)
              \/ RemoveDocumentFromCase(u, c, d)
              \/ DeleteCase(u, c))
             => documents'[d].caseId = from]_vars

\* ---------------------------------------------------------------------
\* C25: a case whose active flag is cleared has no document attached to it,
\* and once the flag is cleared no chat message is added to the case.
DeletedCaseStaysEmpty ==
    [][\A c \in DOMAIN cases' :
          ~cases'[c].isActive =>
             /\ \A d \in DOMAIN documents' : documents'[d].caseId # c
             /\ (c \in DOMAIN cases /\ ~cases[c].isActive)
                   => MessagesByCase(c, chatMessages') = MessagesByCase(c, chatMessages)]_vars

\* ------------------------------------------- concurrent mutation calls ---
\* A mutation is a transaction: the handler runs against a snapshot of the
\* store, and when the snapshot it read is stale at commit the platform runs
\* the handler again, so that its reads and writes take effect at one
\* instant. A call in flight keeps the caseDoc its first run read.
Invoke(op, userId, caseId, documentId) ==
    /\ calls' = Append(calls, [op |-> op, userId |-> userId, caseId |-> caseId,
                               documentId |-> documentId, pc |-> "Running",
                               caseDoc |-> GetCaseDoc(caseId), error |-> ""])
    /\ UNCHANGED <<files, uploads, aiChats, aiChatMessages, aiSends>>
    /\ UNCHANGED <<dbVars, chatVars, result>>

\* the call commits what its first run computed from the caseDoc it read
CommitStaleMut(o) ==
    LET call == calls[o]
        seen == call.caseDoc
        document == GetDocument(call.documentId)
        size == ByteLength(document.content)
        add == call.op = "addDocumentToCase"
    IN
    /\ call.pc = "Running"
    /\ IF \/ call.userId = NoUser
          \/ AccessDenied(seen, call.userId)
          \/ ~document.exists
          \/ ~add /\ document.caseId # call.caseId
          \/ add /\ (DocumentLimitReached(seen) \/ SizeLimitReached(seen, size))
       THEN Throw(call.op, "Case not found or access denied")
       ELSE /\ documents' = [documents EXCEPT
                  ![call.documentId].caseId = IF add THEN call.caseId ELSE NoCase]
            /\ cases' = [cases EXCEPT
                  ![call.caseId].documentCount =
                      IF add THEN seen.documentCount + 1
                      ELSE Max(0, seen.documentCount - 1),
                  ![call.caseId].totalSize =
                      IF add THEN seen.totalSize + size
                      ELSE Max(0, seen.totalSize - size)]
            /\ InsertAuditLog
            /\ Return(call.op)
    /\ calls' = [calls EXCEPT ![o].pc = "Done", ![o].error = result'.error]
    /\ UNCHANGED <<files, uploads, aiChats, aiChatMessages, aiSends>>

\* the call commits: the handler's reads and writes on the store as it is
Commit(o) ==
    LET call == calls[o] IN
    /\ call.pc = "Running"
    /\ IF call.op = "addDocumentToCase"
       THEN AddDocumentToCase(call.userId, call.caseId, call.documentId)
       ELSE RemoveDocumentFromCase(call.userId, call.caseId, call.documentId)
    /\ calls' = [calls EXCEPT ![o].pc = "Done", ![o].error = result'.error]
    /\ UNCHANGED <<files, uploads, aiChats, aiChatMessages, aiSends>>

\* case 1 of u1 (createCase has run), with document 1 attached to it or not
InitRace ==
    /\ chatMessages = << >>
    /\ sends = << >>
    /\ now = 0
    /\ InitRest
    /\ \E attached \in BOOLEAN :
          /\ auditLogs = IF attached THEN 2 ELSE 1
          /\ documents = [d \in DocIds |->
                [NewDocument(d, IF d = 1 THEN TextDoc ELSE AccentDoc)
                    EXCEPT !.caseId = IF attached /\ d = 1 THEN 1 ELSE NoCase]]
          /\ cases = (1 :> [exists |-> TRUE, name |-> "n1", createdBy |-> "u1",
                            isActive |-> TRUE,
                            totalSize |-> IF attached THEN ByteLength(TextDoc) ELSE 0,
                            documentCount |-> IF attached THEN 1 ELSE 0])
          /\ result = Outcome(IF attached THEN "addDocumentToCase" ELSE "createCase",
                              "", << >>, FALSE)

NextRace ==
    \/ /\ Len(calls) < MaxCalls
       /\ \E op \in {"addDocumentToCase", "removeDocumentFromCase"},
             u \in Callers, c \in OneCase, d \in DocIds : Invoke(op, u, c, d)
    \/ \E o \in DOMAIN calls : Commit(o)

SpecRace == InitRace /\ [][NextRace]_vars

\* what a successful call adds to the counters
CountDelta(call) == IF call.op = "addDocumentToCase" THEN 1 ELSE -1
SizeDelta(call) ==
    CountDelta(call) * ByteLength(documents[call.documentId].content)

\* C26: when two addDocumentToCase calls, or an addDocumentToCase and a
\* removeDocumentFromCase call, for different documents on the same case
\* run side by side and both succeed, the case's documentCount and totalSize
\* are what they were before the two calls plus what each call adds.
NoLostUpdate ==
    (/\ Len(calls) = 2
     /\ \A o \in DOMAIN calls : calls[o].pc = "Done" /\ calls[o].error = ""
     /\ calls[1].caseId = calls[2].caseId
     /\ calls[1].documentId # calls[2].documentId)
       => LET before == calls[1].caseDoc
              after == cases[calls[1].caseId]
          IN
          /\ after.documentCount
                = before.documentCount + CountDelta(calls[1]) + CountDelta(calls[2])
          /\ after.totalSize
                = before.totalSize + SizeDelta(calls[1]) + SizeDelta(calls[2])

\* two addDocumentToCase calls for different documents read the same caseDoc
\* before either committed, and both have succeeded
BothAttachesCounted ==
    /\ Len(calls) = 2
    /\ \A o \in DOMAIN calls :
          /\ calls[o].op = "addDocumentToCase"
          /\ calls[o].pc = "Done" /\ calls[o].error = ""
    /\ calls[1].documentId # calls[2].documentId
    /\ calls[1].caseDoc = calls[2].caseDoc
    /\ cases[1].documentCount = 2

\* ------------------------------------------------- concurrent questions ---
\* case 1 of u1 with document 1 attached (createCase and addDocumentToCase
\* have run)
InitChat ==
    /\ auditLogs = 2
    /\ chatMessages = << >>
    /\ sends = << >>
    /\ now = 0
    /\ result = Outcome("addDocumentToCase", "", << >>, FALSE)
    /\ InitRest
    /\ documents = [d \in DocIds |->
          [NewDocument(d, IF d = 1 THEN TextDoc ELSE AccentDoc)
              EXCEPT !.caseId = IF d = 1 THEN 1 ELSE NoCase]]
    /\ cases = (1 :> [exists |-> TRUE, name |-> "n1", createdBy |-> "u1",
                      isActive |-> TRUE, totalSize |-> ByteLength(TextDoc),
                      documentCount |-> 1])

NextChat ==
    \/ /\ Len(sends) < MaxChatSends
       /\ \E u \in Callers, c \in OneCase : SendMessageToCaseAI(u, c, Question)
       /\ UNCHANGED restVars
    \/ Step
    \/ now < MaxClock /\ Tick

SpecChat == InitChat /\ [][NextChat]_vars

\* every message of the transcript was stored by exactly one operation, and
\* an operation that returned has its user message and its assistant message
\* in the transcript of its case
TranscriptSound ==
    /\ \A o \in DOMAIN sends :
          sends[o].pc = "Return"
             => /\ UserMessageStored(sends[o])
                /\ AIMessageStored(sends[o])
                /\ sends[o].userMsgId # sends[o].aiMsgId
    /\ \A i \in DOMAIN chatMessages :
          Cardinality({o \in DOMAIN sends : sends[o].userMsgId = i})
            + Cardinality({o \in DOMAIN sends : sends[o].aiMsgId = i}) = 1
    /\ \A o \in DOMAIN sends :
          /\ sends[o].userMsgId \in DOMAIN chatMessages \cup {0}
          /\ sends[o].aiMsgId \in DOMAIN chatMessages \cup {0}

\* C28: for any interleaving of sendMessageToCaseAI operations on one case,
\* each operation that returned added exactly one user message and exactly
\* one assistant message to the case, every stored message belongs to
\* exactly one operation, and no step changes or removes a stored message.
SendsDoNotInterfere ==
    [][/\ Len(chatMessages') >= Len(chatMessages)
       /\ SubSeq(chatMessages', 1, Len(chatMessages)) = chatMessages
       /\ TranscriptSound']_vars

\* two operations returned after their steps were interleaved: the second
\* one's question and answer were stored between the first one's
InterleavedSendsReturned ==
    /\ Len(sends) = 2
    /\ \A o \in DOMAIN sends : sends[o].pc = "Return"
    /\ sends[1].userMsgId = 1 /\ sends[2].userMsgId = 2
    /\ sends[2].aiMsgId = 3 /\ sends[1].aiMsgId = 4

\* ---------------------------------------------- convertUploadToDocument ---
MAX_EXTRACTED_CHARS == 20000

\* what getText tells apart in a MIME type: the image types it lists,
\* audio/*, *pdf*, *word* or *officedocument*, text/plain, any other *text*
\* or *html*, and the rest, such as application/zip
MimeKinds == {"image", "audio", "pdf", "word", "text/plain", "html", "other"}

\* the types whose text a model call produces
ModelKinds == {"image", "audio", "pdf", "html"}

\* a file of 20,005 characters of text
HugeText == Txt("x", MAX_EXTRACTED_CHARS + 5)

\* an uploaded file: its declared type, whether its bytes are a well-formed
\* file of that type, and the text a well-formed one holds; any bytes are
\* plain text, and a type getText does not know has no format to break
Uploads ==
    [type : MimeKinds \ {"text/plain", "other"}, corrupt : BOOLEAN,
     text : {TextDoc, BlankDoc, HugeText}]
    \cup [type : {"text/plain", "other"}, corrupt : {FALSE},
          text : {TextDoc, BlankDoc, HugeText}]

Text(t) == [threw |-> FALSE, message |-> "", text |-> t]
Failure(message) == [threw |-> TRUE, message |-> message, text |-> << >>]

MsgNoApiKey == "OPENAI_API_KEY is not configured."
MsgNoUrl == "Storage URL missing"
MsgUnsupported == "Unsupported mime type for extraction"
MsgService == "model call failed"
MsgMammoth == "mammoth.extractRawText failed"
MsgUnableToExtract ==
    "Unable to extract readable content from this file. Please try a different format."

\* getText: the outcomes it can have for a file, the key of the model
\* service being configured or not and the storage handle having a URL or
\* not. A model call fails or returns text, which for a file that is not
\* well formed is empty; mammoth rejects a file that is not well formed.
GetText(apiKey, url, file) ==
    IF ~apiKey THEN {Failure(MsgNoApiKey)}
    ELSE IF ~url THEN {Failure(MsgNoUrl)}
    ELSE IF file.type \in ModelKinds
    THEN {Failure(MsgService), Text(IF file.corrupt THEN << >> ELSE file.text)}
    ELSE IF file.type = "word"
    THEN {IF file.corrupt THEN Failure(MsgMammoth) ELSE Text(file.text)}
    ELSE IF file.type = "text/plain"
    THEN {Text(file.text)}
    ELSE {Failure(MsgUnsupported)}

\* a client calls convertUploadToDocument; caseId is NoCase when it is left out
ConvertUploadToDocument(userId, file, caseId) ==
    /\ uploads' = Append(uploads,
          [userId |-> userId, file |-> file, caseId |-> caseId, pc |-> "GetText",
           extractedText |-> << >>, documentId |-> 0, fileId |-> 0,
           status |-> "", message |-> ""])
    /\ UNCHANGED <<calls, files, aiChats, aiChatMessages, aiSends>>
    /\ UNCHANGED <<dbVars, chatVars, result>>

\* getAuthenticatedUser, getText and the test of the extracted text
ExtractText(o, apiKey, url) ==
    LET op == uploads[o] IN
    /\ op.pc = "GetText"
    /\ IF op.userId = NoUser
       THEN uploads' = [uploads EXCEPT ![o].pc = "Threw",
                                       ![o].message = "Not authenticated"]
       ELSE \E outcome \in GetText(apiKey, url, op.file) :
               IF outcome.threw
               THEN uploads' = [uploads EXCEPT ![o].pc = "Threw",
                                               ![o].message = outcome.message]
               ELSE IF outcome.text = << >> \/ Trim(outcome.text) = << >>
               THEN uploads' = [uploads EXCEPT ![o].pc = "Returned",
                                               ![o].status = "error",
                                               ![o].message = MsgUnableToExtract]
               ELSE uploads' = [uploads EXCEPT ![o].pc = "CreateDocument",
                                               ![o].extractedText = outcome.text]
    /\ UNCHANGED <<calls, files, aiChats, aiChatMessages, aiSends>>
    /\ UNCHANGED <<dbVars, chatVars, result>>

\* documents.createImportedDocument: a new document of the caller, with the
\* first 20,000 characters of the text, in no case and linked to no file
CreateImportedDocument(o) ==
    LET op == uploads[o]
        documentId == Cardinality(DOMAIN documents) + 1
    IN
    /\ op.pc = "CreateDocument"
    /\ documents' = documents @@ (documentId :>
          [exists |-> TRUE, title |-> Txt("t", 5),
           content |-> Slice(op.extractedText, MAX_EXTRACTED_CHARS),
           caseId |-> NoCase, lastModifiedAt |-> 100 * documentId,
           createdBy |-> op.userId, fileId |-> 0])
    /\ uploads' = [uploads EXCEPT
          ![o].documentId = documentId,
          ![o].pc = IF op.caseId # NoCase THEN "Attach" ELSE "CreateFile"]
    /\ UNCHANGED <<cases, auditLogs, chatVars, result>>
    /\ UNCHANGED <<calls, files, aiChats, aiChatMessages, aiSends>>

\* if (args.caseId) runMutation(cases.addDocumentToCase): what it throws
\* ends the action
AttachImportedDocument(o) ==
    LET op == uploads[o] IN
    /\ op.pc = "Attach"
    /\ AddDocumentToCase(op.userId, op.caseId, op.documentId)
    /\ IF result'.error # ""
       THEN uploads' = [uploads EXCEPT ![o].pc = "Threw",
                                       ![o].message = result'.error]
       ELSE uploads' = [uploads EXCEPT ![o].pc = "CreateFile"]
    /\ UNCHANGED <<calls, files, aiChats, aiChatMessages, aiSends>>

\* files.createFileRecord: a new file record that names the document and
\* the case
CreateFileRecord(o) ==
    LET op == uploads[o]
        fileId == Len(files) + 1
    IN
    /\ op.pc = "CreateFile"
    /\ files' = Append(files,
          [uploadedBy |-> op.userId, type |-> op.file.type,
           documentId |-> op.documentId, caseId |-> op.caseId])
    /\ uploads' = [uploads EXCEPT ![o].fileId = fileId, ![o].pc = "Link"]
    /\ UNCHANGED <<dbVars, chatVars, result>>
    /\ UNCHANGED <<calls, aiChats, aiChatMessages, aiSends>>

\* documents.linkDocumentToFile, and the return of status "ok"
LinkDocumentToFile(o) ==
    LET op == uploads[o] IN
    /\ op.pc = "Link"
    /\ documents' = [documents EXCEPT ![op.documentId].fileId = op.fileId]
    /\ uploads' = [uploads EXCEPT ![o].pc = "Returned", ![o].status = "ok"]
    /\ UNCHANGED <<cases, auditLogs, chatVars, result>>
    /\ UNCHANGED <<calls, files, aiChats, aiChatMessages, aiSends>>

\* the store before any document is written
InitUpload ==
    /\ InitStore
    /\ documents = << >>

UploadStep ==
    \E o \in DOMAIN uploads :
        \/ \E apiKey \in BOOLEAN, url \in BOOLEAN : ExtractText(o, apiKey, url)
        \/ CreateImportedDocument(o)
        \/ AttachImportedDocument(o)
        \/ CreateFileRecord(o)
        \/ LinkDocumentToFile(o)

\* uploads into a case that may not exist or may be another user's
NextUpload ==
    \/ auditLogs < MaxAuditUpload /\ Create(OneCase)
    \/ /\ Len(uploads) < MaxUploads
       /\ \E u \in Callers, file \in Uploads, c \in OneCase \cup {NoCase} :
             ConvertUploadToDocument(u, file, c)
    \/ UploadStep

SpecUpload == InitUpload /\ [][NextUpload]_vars

\* failures that are not the file's: the key is not set, the storage handle
\* has no URL, or the model service is down
EnvironmentFailures == {MsgNoApiKey, MsgNoUrl, MsgService}

\* C23: an extraction failure never surfaces as a thrown error: for a file
\* of an unsupported type or with corrupt content, convertUploadToDocument
\* called by a signed-in user returns, unless the environment fails, the
\* status "error" outcome with the "Unable to extract readable content"
\* message, and creates no document and no file record.
ExtractionFailureIsAnOutcome ==
    \A o \in DOMAIN uploads :
        LET op == uploads[o] IN
        (/\ op.userId \in Users
         /\ op.file.type = "other" \/ op.file.corrupt
         /\ op.pc # "GetText"
         /\ op.message \notin EnvironmentFailures)
           => /\ op.pc = "Returned"
              /\ op.status = "error"
              /\ op.message = MsgUnableToExtract
              /\ op.documentId = 0 /\ op.fileId = 0

\* ---------------------------------------------------------------------
\* C29: convertUploadToDocument is all-or-nothing with respect to the case:
\* when it is given a caseId and the attach fails, no new document record
\* and no file record remain in the store; when it returns status "ok" with
\* a caseId, the new document is attached to that case and linked to the new
\* file record.
UploadAllOrNothing ==
    \A o \in DOMAIN uploads :
        LET op == uploads[o] IN
        /\ (op.caseId # NoCase /\ op.pc = "Threw" /\ op.message \in AuthErrors \cup LimitErrors)
              => /\ DOMAIN documents = {}
                 /\ files = << >>
        /\ (op.caseId # NoCase /\ op.pc = "Returned" /\ op.status = "ok")
              => /\ documents[op.documentId].caseId = op.caseId
                 /\ documents[op.documentId].fileId = op.fileId
                 /\ files[op.fileId].documentId = op.documentId

\* ------------------------------------------------------ workspace chat ---
\* the ids a workspace chat is asked for by: the chats that are created, and
\* one more that never has a record
ChatIds == 1..(MaxChats + 1)

PREVIEW_CHARS == 200

\* ctx.db.get(chatId)
GetChatDoc(chatId) ==
    IF chatId \in DOMAIN aiChats /\ aiChats[chatId].exists THEN aiChats[chatId] ELSE Null

\* getChat: null unless the caller owns the chat
GetChat(userId, chatId) ==
    LET chat == GetChatDoc(chatId) IN
    IF userId = NoUser THEN Null
    ELSE IF ~chat.exists \/ chat.userId # userId THEN Null
    ELSE chat

\* createChat
CreateChat(userId) ==
    /\ userId # NoUser
    /\ aiChats' = Append(aiChats,
          [exists |-> TRUE, userId |-> userId, lastMessageAt |-> Undefined,
           lastMessagePreview |-> Undefined])
    /\ UNCHANGED <<aiChatMessages, aiSends, calls, files, uploads>>
    /\ UNCHANGED <<dbVars, chatVars, result>>

\* deleteChat: the chat and its messages are deleted; a deleted record of
\* the table is kept as one that does not exist, its id is not given again
DeleteChat(userId, chatId) ==
    LET chat == GetChatDoc(chatId) IN
    /\ userId # NoUser
    /\ chat.exists /\ chat.userId = userId
    /\ aiChatMessages' =
          [i \in DOMAIN aiChatMessages |->
              IF aiChatMessages[i].chatId = chatId
              THEN [aiChatMessages[i] EXCEPT !.exists = FALSE]
              ELSE aiChatMessages[i]]
    /\ aiChats' = [aiChats EXCEPT ![chatId].exists = FALSE]
    /\ UNCHANGED <<aiSends, calls, files, uploads>>
    /\ UNCHANGED <<dbVars, chatVars, result>>

\* appendMessage of a chat that exists: the message is inserted and the chat
\* is patched with its stamp and its first 200 characters
AppendMessage(chatId, role, content, createdAt) ==
    /\ aiChatMessages' = Append(aiChatMessages,
          [exists |-> TRUE, chatId |-> chatId, role |-> role, content |-> content,
           createdAt |-> createdAt])
    /\ aiChats' = [aiChats EXCEPT
          ![chatId].lastMessageAt = createdAt,
          ![chatId].lastMessagePreview = Slice(content, PREVIEW_CHARS)]

\* a client calls sendMessage
SendMessage(userId, chatId, content) ==
    /\ aiSends' = Append(aiSends,
          [userId |-> userId, chatId |-> chatId, content |-> content,
           pc |-> "GetChat", chat |-> Null, timestamp |-> 0, userMsgId |-> 0,
           reply |-> << >>, aiMsgId |-> 0, error |-> ""])
    /\ UNCHANGED <<aiChats, aiChatMessages, calls, files, uploads>>
    /\ UNCHANGED <<dbVars, chatVars, result>>

\* requireUserId, getChat and the owner test, getMessages (which feeds the
\* prompt only), and the user message's stamp
CheckChat(o) ==
    LET op == aiSends[o]
        chat == GetChat(op.userId, op.chatId)
    IN
    /\ op.pc = "GetChat"
    /\ IF op.userId = NoUser
       THEN aiSends' = [aiSends EXCEPT ![o].pc = "Threw",
                                       ![o].error = "Not authenticated"]
       ELSE IF ~chat.exists \/ chat.userId # op.userId
       THEN aiSends' = [aiSends EXCEPT ![o].pc = "Threw",
                                       ![o].error = "Chat not found"]
       ELSE aiSends' = [aiSends EXCEPT ![o].pc = "AppendUserMessage",
                                       ![o].chat = chat,
                                       ![o].timestamp = now]
    /\ UNCHANGED <<aiChats, aiChatMessages, calls, files, uploads>>
    /\ UNCHANGED <<dbVars, chatVars, result>>

\* runMutation(appendMessage, role "user")
AppendUserMessage(o) ==
    LET op == aiSends[o] IN
    /\ op.pc = "AppendUserMessage"
    /\ IF ~GetChatDoc(op.chatId).exists
       THEN /\ aiSends' = [aiSends EXCEPT ![o].pc = "Threw",
                                          ![o].error = "Chat not found"]
            /\ UNCHANGED <<aiChats, aiChatMessages>>
       ELSE /\ AppendMessage(op.chatId, "user", op.content, op.timestamp)
            /\ aiSends' = [aiSends EXCEPT ![o].pc = "Complete",
                                          ![o].userMsgId = Len(aiChatMessages) + 1]
    /\ UNCHANGED <<calls, files, uploads>>
    /\ UNCHANGED <<dbVars, chatVars, result>>

\* the test of the key, openai.responses.create and the test of the reply
Complete(o, apiKey, response) ==
    LET op == aiSends[o]
        aiText == IF response.hasContent THEN response.content ELSE << >>
        reply == Trim(aiText)
    IN
    /\ op.pc = "Complete"
    /\ IF ~apiKey
       THEN aiSends' = [aiSends EXCEPT ![o].pc = "Threw",
                                       ![o].error = "OPENAI_API_KEY is not configured."]
       ELSE IF response.threw
       THEN aiSends' = [aiSends EXCEPT ![o].pc = "Threw",
                                       ![o].error = "responses.create failed"]
       ELSE IF reply = << >>
       THEN aiSends' = [aiSends EXCEPT ![o].pc = "Threw",
                                       ![o].error = "AI did not return a response"]
       ELSE aiSends' = [aiSends EXCEPT ![o].pc = "AppendAssistantMessage",
                                       ![o].reply = reply]
    /\ UNCHANGED <<aiChats, aiChatMessages, calls, files, uploads>>
    /\ UNCHANGED <<dbVars, chatVars, result>>

\* runMutation(appendMessage, role "assistant") and the return of the reply
AppendAssistantMessage(o) ==
    LET op == aiSends[o] IN
    /\ op.pc = "AppendAssistantMessage"
    /\ IF ~GetChatDoc(op.chatId).exists
       THEN /\ aiSends' = [aiSends EXCEPT ![o].pc = "Threw",
                                          ![o].error = "Chat not found"]
            /\ UNCHANGED <<aiChats, aiChatMessages>>
       ELSE /\ AppendMessage(op.chatId, "assistant", op.reply, now)
            /\ aiSends' = [aiSends EXCEPT ![o].pc = "Returned",
                                          ![o].aiMsgId = Len(aiChatMessages) + 1]
    /\ UNCHANGED <<calls, files, uploads>>
    /\ UNCHANGED <<dbVars, chatVars, result>>

AiChatStep ==
    \E o \in DOMAIN aiSends :
        \/ CheckChat(o)
        \/ AppendUserMessage(o)
        \/ \E apiKey \in BOOLEAN, response \in Completions : Complete(o, apiKey, response)
        \/ AppendAssistantMessage(o)

NextAiChat ==
    \/ Len(aiChats) < MaxChats /\ \E u \in Users : CreateChat(u)
    \/ \E u \in Users, chatId \in ChatIds : DeleteChat(u, chatId)
    \/ /\ Len(aiSends) < MaxAiSends
       /\ \E u \in Callers, chatId \in ChatIds, content \in {Question, LongDoc} :
             SendMessage(u, chatId, content)
    \/ AiChatStep
    \/ now < MaxClock /\ Tick

SpecAiChat == Init /\ [][NextAiChat]_vars

\* C30: sendMessage is all-or-nothing: when it has thrown (the chat is not
\* the caller's, the key is not configured, the completion call failed or
\* the reply was empty), it has added neither a user message nor an
\* assistant message to the chat, and the chat's lastMessageAt and
\* lastMessagePreview are what they were.
SendMessageAllOrNothing ==
    \A o \in DOMAIN aiSends :
        LET op == aiSends[o] IN
        op.pc = "Threw"
           => /\ op.userMsgId = 0 /\ op.aiMsgId = 0
              /\ (op.chat.exists /\ GetChatDoc(op.chatId).exists)
                    => /\ GetChatDoc(op.chatId).lastMessageAt = op.chat.lastMessageAt
                       /\ GetChatDoc(op.chatId).lastMessagePreview
                             = op.chat.lastMessagePreview

====
